---- MODULE Spec2Model ----
(***************************************************************************)
(* A model of SuffixModification/rename_files.py: one run of main() over a  *)
(* directory tree.  Strings are sequences of one-character strings, so     *)
(* that endswith, replace, dirname, basename and join are computed the way  *)
(* Python computes them.  The file system is a function from keys (the      *)
(* sequence of names leading to an entry, relative to the working          *)
(* directory) to entries; path strings are resolved to keys the way the    *)
(* operating system resolves them.                                          *)
(***************************************************************************)
EXTENDS Integers, Sequences, FiniteSets, TLC

\* ------------------------------------------------------------ bounds
\* At most this many entries (files, leaf directories) besides the skeleton.
MaxFiles == 2

\* ------------------------------------------------------------ strings
DotAdoc == <<".", "a", "d", "o", "c">>
DotDocx == <<".", "d", "o", "c", "x">>
DotTxt == <<".", "t", "x", "t">>

\* The literal '.adoc.docx' of lines 32 and 44, and the '.docx' of line 44.
OldSuffix == DotAdoc \o DotDocx
NewSuffix == DotDocx

Last(s) == s[Len(s)]
Front(s) == SubSeq(s, 1, Len(s) - 1)

\* str.endswith
EndsWith(s, suf) ==
    /\ Len(s) >= Len(suf)
    /\ SubSeq(s, Len(s) - Len(suf) + 1, Len(s)) = suf

\* str.startswith
StartsWith(s, pre) ==
    /\ Len(s) >= Len(pre)
    /\ SubSeq(s, 1, Len(pre)) = pre

\* str.replace(old, new): every non-overlapping occurrence, left to right.
RECURSIVE Replace(_, _, _)
Replace(s, old, new) ==
    IF Len(s) < Len(old) THEN s
    ELSE IF StartsWith(s, old)
         THEN new \o Replace(SubSeq(s, Len(old) + 1, Len(s)), old, new)
         ELSE <<Head(s)>> \o Replace(Tail(s), old, new)

\* ------------------------------------------------------------ os.path
\* os.sep, and the characters os.path takes for separators.
Sep(plat) == IF plat = "nt" THEN "\\" ELSE "/"
IsSep(plat, c) == IF plat = "nt" THEN c \in {"/", "\\"} ELSE c = "/"

\* The index of the last separator of p, 0 when it has none.
RECURSIVE LastSep(_, _, _)
LastSep(plat, p, i) ==
    IF i = 0 THEN 0
    ELSE IF IsSep(plat, p[i]) THEN i ELSE LastSep(plat, p, i - 1)

\* str.rstrip of the separators.
RECURSIVE RStripSep(_, _)
RStripSep(plat, s) ==
    IF s # <<>> /\ IsSep(plat, Last(s)) THEN RStripSep(plat, Front(s)) ELSE s

\* os.path.dirname: all up to the last separator, trailing separators
\* stripped unless the head is separators only.
DirName(plat, p) ==
    LET head == SubSeq(p, 1, LastSep(plat, p, Len(p)))
    IN  IF RStripSep(plat, head) = <<>> THEN head ELSE RStripSep(plat, head)

\* os.path.basename: all after the last separator.
BaseName(plat, p) == SubSeq(p, LastSep(plat, p, Len(p)) + 1, Len(p))

\* os.path.join of two parts.
PathJoin(plat, a, b) ==
    IF b # <<>> /\ IsSep(plat, Head(b)) THEN b
    ELSE IF a = <<>> \/ IsSep(plat, Last(a)) THEN a \o b
    ELSE a \o <<Sep(plat)>> \o b

\* The operating system's reading of a path: its components, empty ones
\* (doubled or trailing separators) dropped.
RECURSIVE Components(_, _, _)
Components(plat, p, cur) ==
    IF p = <<>> THEN (IF cur = <<>> THEN <<>> ELSE <<cur>>)
    ELSE IF IsSep(plat, Head(p))
         THEN (IF cur = <<>> THEN <<>> ELSE <<cur>>) \o Components(plat, Tail(p), <<>>)
         ELSE Components(plat, Tail(p), Append(cur, Head(p)))

Resolve(plat, p) == Components(plat, p, <<>>)

\* ------------------------------------------------------------ file system
\* An entry: a file with its content, or a directory with its permissions
\* ("rwx" full, "r-x" not writable, "---" neither listable nor searchable).
FileEntry(data) == [kind |-> "file", data |-> data, perm |-> "rwx"]
DirEntry(perm) == [kind |-> "dir", data |-> <<>>, perm |-> perm]

IsPrefix(k, l) == Len(k) <= Len(l) /\ SubSeq(l, 1, Len(k)) = k

\* The entry at key exists and every directory on the way can be searched.
Accessible(f, key) ==
    /\ key \in DOMAIN f
    /\ \A i \in 1..(Len(key) - 1) :
          LET anc == SubSeq(key, 1, i)
          IN  anc \in DOMAIN f /\ f[anc].kind = "dir" /\ f[anc].perm # "---"

\* os.path.exists, os.path.isdir (lines 86 and 90).
PathExists(plat, f, p) == Accessible(f, Resolve(plat, p))
PathIsDir(plat, f, p) ==
    PathExists(plat, f, p) /\ f[Resolve(plat, p)].kind = "dir"

\* The keys directly under a directory.
Children(f, key) == {k \in DOMAIN f : Len(k) = Len(key) + 1 /\ IsPrefix(key, k)}

\* os.scandir succeeds on a directory that can be reached and listed.
CanScan(plat, f, top) ==
    /\ PathIsDir(plat, f, top)
    /\ f[Resolve(plat, top)].perm # "---"

\* Whether os.rename(old, new) raises.  A missing source, a missing or
\* read-only parent directory, and a clash of kinds fail on every platform;
\* an existing target fails on Windows and is replaced on POSIX.
RenameFails(plat, f, old, new) ==
    LET src == Resolve(plat, old)
        dst == Resolve(plat, new)
    IN  \/ src = <<>> \/ dst = <<>>
        \/ ~Accessible(f, src)
        \/ Len(dst) > 1 /\ ~Accessible(f, Front(dst))
        \/ Len(dst) > 1 /\ f[Front(dst)].kind # "dir"
        \/ Len(src) > 1 /\ f[Front(src)].perm # "rwx"
        \/ Len(dst) > 1 /\ f[Front(dst)].perm # "rwx"
        \/ /\ dst \in DOMAIN f
           /\ dst # src
           /\ \/ plat = "nt"
              \/ f[src].kind # f[dst].kind
              \/ f[dst].kind = "dir" /\ Children(f, dst) # {}
        \/ IsPrefix(src, dst) /\ dst # src

\* The file system after os.rename(old, new) took effect: the source and
\* all under it move to the target, whatever was at the target is gone.
RenameEffect(plat, f, old, new) ==
    LET src == Resolve(plat, old)
        dst == Resolve(plat, new)
        Moved(k) == dst \o SubSeq(k, Len(src) + 1, Len(k))
        moving == {k \in DOMAIN f : IsPrefix(src, k)}
        staying == {k \in DOMAIN f : ~IsPrefix(src, k) /\ ~IsPrefix(dst, k)}
    IN  IF src = dst THEN f
        ELSE [k \in staying \cup {Moved(m) : m \in moving} |->
                IF k \in staying THEN f[k]
                ELSE f[src \o SubSeq(k, Len(dst) + 1, Len(k))]]

\* os.rename (line 67): whether it returned, and the file system after it.
OsRename(plat, f, old, new) ==
    IF RenameFails(plat, f, old, new)
    THEN [ok |-> FALSE, fs |-> f]
    ELSE [ok |-> TRUE, fs |-> RenameEffect(plat, f, old, new)]

\* ------------------------------------------------------------ the trees
RootName == <<"r">>
\* A directory whose own name ends with the suffix.
SubName == <<"d">> \o OldSuffix
RootKey == <<RootName>>
SubKey == <<RootName, SubName>>
SkeletonDirs == {RootKey, SubKey}

Stem == <<"a">>
Names ==
    { Stem \o OldSuffix,                 \* a.adoc.docx
      Stem \o NewSuffix,                 \* a.docx
      Stem \o DotAdoc \o OldSuffix,      \* a.adoc.adoc.docx
      Stem \o OldSuffix \o OldSuffix,    \* a.adoc.docx.adoc.docx
      Stem \o NewSuffix \o OldSuffix,    \* a.docx.adoc.docx
      Stem \o OldSuffix \o DotTxt }      \* a.adoc.docx.txt
\* Names that may also be those of (empty) directories.
LeafDirNames == {Stem \o OldSuffix, Stem \o NewSuffix}

Slots == SkeletonDirs \X Names
Restrictions == {<<>>} \cup (SkeletonDirs \X {"r-x", "---"})

MkTree(slots, leafdirs, restricted) ==
    [k \in SkeletonDirs \cup {Append(s[1], s[2]) : s \in slots} |->
        IF k \in SkeletonDirs
        THEN DirEntry(IF restricted # <<>> /\ restricted[1] = k
                      THEN restricted[2] ELSE "rwx")
        ELSE IF <<Front(k), Last(k)>> \in leafdirs
             THEN DirEntry("rwx")
             ELSE FileEntry(k)]

InitialTrees ==
    UNION { { MkTree(slots, leafdirs, restricted) :
                leafdirs \in SUBSET {s \in slots : s[2] \in LeafDirNames},
                restricted \in Restrictions } :
            slots \in {t \in SUBSET Slots : Cardinality(t) <= MaxFiles} }

Platforms == {"posix", "nt"}
\* The command line's directory: the root, or a path under it that may be
\* missing, a file or a directory.
Arguments(plat) ==
    {RootName, PathJoin(plat, RootName, Stem \o NewSuffix)}

\* The orders in which a directory's entries may be listed.
Perms(S) ==
    {p \in [1..Cardinality(S) -> S] : \A i, j \in DOMAIN p : p[i] = p[j] => i = j}

\* The names of the listed entries that are directories (kind "dir") or
\* anything else (kind "file"), in listing order: os.walk's dirs and files.
RECURSIVE SelectNames(_, _, _)
SelectNames(f, order, kind) ==
    IF order = <<>> THEN <<>>
    ELSE IF (f[Head(order)].kind = "dir") = (kind = "dir")
         THEN <<Last(Head(order))>> \o SelectNames(f, Tail(order), kind)
         ELSE SelectNames(f, Tail(order), kind)

\* ------------------------------------------------------------ the program
VARIABLES
    platform,           \* the build's os module: "posix" or "nt"
    preview,            \* args.preview
    directory,          \* args.directory
    fs,                 \* the file system
    pc,                 \* where main() is
    stack,              \* os.walk's directories still to list
    files_to_process,   \* the candidate list
    idx,                \* candidates the preview or execute loop has taken
    success_count,
    error_count,
    log,                \* the lines logged, in order
    attempts,           \* history: the rename attempts and what each did
    fs0,                \* history: the file system when the run started
    run,                \* history: which invocation this is
    first               \* history: how the first invocation ended

vars == <<platform, preview, directory, fs, pc, stack, files_to_process, idx,
          success_count, error_count, log, attempts, fs0, run, first>>

args == <<platform, preview, directory>>
history == <<fs0, run, first>>

NoFirst == [done |-> FALSE]

Init ==
    /\ platform \in Platforms
    /\ preview \in BOOLEAN
    /\ directory \in Arguments(platform)
    /\ fs \in InitialTrees
    /\ fs0 = fs
    /\ pc = "Idle"
    /\ stack = <<>>
    /\ files_to_process = <<>>
    /\ idx = 0
    /\ success_count = 0
    /\ error_count = 0
    /\ log = <<>>
    /\ attempts = <<>>
    /\ run = 1
    /\ first = NoFirst

\* generate_new_filename (lines 39-45).
generate_new_filename(plat, old_filepath) ==
    LET dir == DirName(plat, old_filepath)
        old_filename == BaseName(plat, old_filepath)
        new_filename == Replace(old_filename, OldSuffix, NewSuffix)
    IN  PathJoin(plat, dir, new_filename)

\* A faulty variant of the test of line 32: the suffix anywhere in the name.
IsCandidateNameAnywhere(file) == Replace(file, OldSuffix, <<>>) # file

\* The test of line 32.
IsCandidateName(file) == EndsWith(file, OldSuffix)

\* Lines 30-33 for one listed directory: the paths appended.
RECURSIVE ScanFiles(_, _, _)
ScanFiles(plat, root, files) ==
    IF files = <<>> THEN <<>>
    ELSE LET file_path == PathJoin(plat, root, Head(files))
         IN  (IF IsCandidateName(Head(files)) THEN <<file_path>> ELSE <<>>)
             \o ScanFiles(plat, root, Tail(files))

\* os.walk's paths of the subdirectories to list next.
SubDirs(plat, root, dirs) ==
    [i \in 1..Len(dirs) |-> PathJoin(plat, root, dirs[i])]

\* main, lines 86-88: the directory does not exist.
RootMissing ==
    /\ pc = "Idle"
    /\ ~PathExists(platform, fs, directory)
    /\ log' = Append(log, <<"ERROR", "no_such_directory", directory>>)
    /\ pc' = "Done"
    /\ UNCHANGED <<args, fs, stack, files_to_process, idx, success_count,
                   error_count, attempts, history>>

\* A faulty variant of lines 90-92: the error is logged and the return is missing.
RootNotDirNoReturn ==
    /\ pc = "Idle"
    /\ PathExists(platform, fs, directory)
    /\ ~PathIsDir(platform, fs, directory)
    /\ log' = Append(log, <<"ERROR", "not_a_directory", directory>>)
    /\ pc' = "Scanning"
    /\ stack' = <<directory>>
    /\ files_to_process' = <<>>
    /\ UNCHANGED <<args, fs, idx, success_count, error_count, attempts, history>>

\* main, lines 90-92: the path is not a directory.
RootNotDir ==
    /\ pc = "Idle"
    /\ PathExists(platform, fs, directory)
    /\ ~PathIsDir(platform, fs, directory)
    /\ log' = Append(log, <<"ERROR", "not_a_directory", directory>>)
    /\ pc' = "Done"
    /\ UNCHANGED <<args, fs, stack, files_to_process, idx, success_count,
                   error_count, attempts, history>>

\* main, lines 94-98, and traverse_directory up to the call of os.walk.
StartScan ==
    /\ pc = "Idle"
    /\ PathExists(platform, fs, directory)
    /\ PathIsDir(platform, fs, directory)
    /\ log' = log \o <<<<"INFO", "start", directory>>, <<"INFO", "start_time">>>>
    /\ pc' = "Scanning"
    /\ stack' = <<directory>>
    /\ files_to_process' = <<>>
    /\ UNCHANGED <<args, fs, idx, success_count, error_count, attempts, history>>

\* traverse_directory, lines 29-33: os.walk lists one directory, in any
\* order, and the loop body takes its files.
WalkStep ==
    /\ pc = "Scanning"
    /\ stack # <<>>
    /\ CanScan(platform, fs, Head(stack))
    /\ \E order \in Perms(Children(fs, Resolve(platform, Head(stack)))) :
          /\ files_to_process' = files_to_process \o
                ScanFiles(platform, Head(stack), SelectNames(fs, order, "file"))
          /\ stack' = SubDirs(platform, Head(stack), SelectNames(fs, order, "dir"))
                          \o Tail(stack)
    /\ UNCHANGED <<args, fs, pc, idx, success_count, error_count, log,
                   attempts, history>>

\* traverse_directory, line 29: os.walk (onerror=None) drops a directory it
\* cannot list and goes on; nothing is raised and nothing is logged.
WalkSkip ==
    /\ pc = "Scanning"
    /\ stack # <<>>
    /\ ~CanScan(platform, fs, Head(stack))
    /\ stack' = Tail(stack)
    /\ UNCHANGED <<args, fs, pc, files_to_process, idx, success_count,
                   error_count, log, attempts, history>>

\* traverse_directory, lines 35-37: an exception leaves the loop.
WalkRaise ==
    /\ pc = "Scanning"
    /\ stack # <<>>
    /\ log' = Append(log, <<"ERROR", "traverse">>)
    /\ files_to_process' = <<>>
    /\ stack' = <<>>
    /\ UNCHANGED <<args, fs, pc, idx, success_count, error_count, attempts,
                   history>>

\* traverse_directory, line 34 (or 37), and main, lines 100-102.
NoCandidates ==
    /\ pc = "Scanning"
    /\ stack = <<>>
    /\ files_to_process = <<>>
    /\ log' = Append(log, <<"INFO", "nothing_found">>)
    /\ pc' = "Done"
    /\ UNCHANGED <<args, fs, stack, files_to_process, idx, success_count,
                   error_count, attempts, history>>

\* main, lines 105-106, and preview_rename, lines 49-50.
StartPreview ==
    /\ pc = "Scanning"
    /\ stack = <<>>
    /\ files_to_process # <<>>
    /\ preview
    /\ log' = log \o <<<<"INFO", "preview_mode">>,
                       <<"INFO", "found", Len(files_to_process)>>>>
    /\ pc' = "Previewing"
    /\ idx' = 0
    /\ UNCHANGED <<args, fs, stack, files_to_process, success_count,
                   error_count, attempts, history>>

\* preview_rename, lines 52-54: one candidate.
PreviewStep ==
    /\ pc = "Previewing"
    /\ idx < Len(files_to_process)
    /\ LET old_filepath == files_to_process[idx + 1]
           new_filepath == generate_new_filename(platform, old_filepath)
       IN  log' = Append(log, <<"INFO", "will_rename", old_filepath, new_filepath>>)
    /\ idx' = idx + 1
    /\ UNCHANGED <<args, fs, pc, stack, files_to_process, success_count,
                   error_count, attempts, history>>

\* preview_rename, line 56, and main, line 110.
PreviewFinish ==
    /\ pc = "Previewing"
    /\ idx = Len(files_to_process)
    /\ log' = log \o <<<<"INFO", "preview_done">>, <<"INFO", "end_time">>>>
    /\ pc' = "Done"
    /\ UNCHANGED <<args, fs, stack, files_to_process, idx, success_count,
                   error_count, attempts, history>>

\* A faulty variant of lines 105-108: execute mode is entered whatever the flag.
StartExecuteAnyMode ==
    /\ pc = "Scanning"
    /\ stack = <<>>
    /\ files_to_process # <<>>
    /\ log' = Append(log, <<"INFO", "execute_mode">>)
    /\ pc' = "Executing"
    /\ idx' = 0
    /\ success_count' = 0
    /\ error_count' = 0
    /\ UNCHANGED <<args, fs, stack, files_to_process, attempts, history>>

\* main, lines 107-108, and execute_rename, lines 60-62.
StartExecute ==
    /\ pc = "Scanning"
    /\ stack = <<>>
    /\ files_to_process # <<>>
    /\ ~preview
    /\ log' = Append(log, <<"INFO", "execute_mode">>)
    /\ pc' = "Executing"
    /\ idx' = 0
    /\ success_count' = 0
    /\ error_count' = 0
    /\ UNCHANGED <<args, fs, stack, files_to_process, attempts, history>>

\* A faulty variant of lines 65-72: a failed rename is counted as a success.
RenameOneCountsFailureAsSuccess(plat, f, c, old_filepath) ==
    LET new_filepath == generate_new_filename(plat, old_filepath)
        r == OsRename(plat, f, old_filepath, new_filepath)
    IN  [fs |-> r.fs, counts |-> <<c[1] + 1, c[2]>>,
         line |-> <<"INFO", "renamed", old_filepath, new_filepath>>]

\* A faulty variant of lines 65-72: a failed rename is logged and not counted.
RenameOneUncounted(plat, f, c, old_filepath) ==
    LET new_filepath == generate_new_filename(plat, old_filepath)
        r == OsRename(plat, f, old_filepath, new_filepath)
    IN  IF r.ok
        THEN [fs |-> r.fs, counts |-> <<c[1] + 1, c[2]>>,
              line |-> <<"INFO", "renamed", old_filepath, new_filepath>>]
        ELSE [fs |-> r.fs, counts |-> c,
              line |-> <<"ERROR", "rename_failed", old_filepath>>]

\* A faulty variant of lines 65-72: after a first failure no further rename is made.
RenameOneAbort(plat, f, c, old_filepath) ==
    LET new_filepath == generate_new_filename(plat, old_filepath)
        r == OsRename(plat, f, old_filepath, new_filepath)
    IN  IF c[2] > 0
        THEN [fs |-> f, counts |-> c,
              line |-> <<"ERROR", "rename_failed", old_filepath>>]
        ELSE IF r.ok
        THEN [fs |-> r.fs, counts |-> <<c[1] + 1, c[2]>>,
              line |-> <<"INFO", "renamed", old_filepath, new_filepath>>]
        ELSE [fs |-> r.fs, counts |-> <<c[1], c[2] + 1>>,
              line |-> <<"ERROR", "rename_failed", old_filepath>>]

\* execute_rename, lines 65-72: one candidate's outcome, from the counters
\* c = <<success_count, error_count>> and the file system f.
RenameOne(plat, f, c, old_filepath) ==
    LET new_filepath == generate_new_filename(plat, old_filepath)
        r == OsRename(plat, f, old_filepath, new_filepath)
    IN  IF r.ok
        THEN [fs |-> r.fs, counts |-> <<c[1] + 1, c[2]>>,
              line |-> <<"INFO", "renamed", old_filepath, new_filepath>>]
        ELSE [fs |-> r.fs, counts |-> <<c[1], c[2] + 1>>,
              line |-> <<"ERROR", "rename_failed", old_filepath>>]

\* execute_rename, lines 64-72: one candidate.
ExecuteStep ==
    /\ pc = "Executing"
    /\ idx < Len(files_to_process)
    /\ LET old_filepath == files_to_process[idx + 1]
           r == RenameOne(platform, fs, <<success_count, error_count>>, old_filepath)
       IN  /\ fs' = r.fs
           /\ success_count' = r.counts[1]
           /\ error_count' = r.counts[2]
           /\ log' = Append(log, r.line)
           /\ attempts' = Append(attempts,
                              [old |-> old_filepath,
                               new |-> generate_new_filename(platform, old_filepath),
                               changed |-> r.fs # fs])
    /\ idx' = idx + 1
    /\ UNCHANGED <<args, pc, stack, files_to_process, history>>

\* execute_rename, lines 74-76, and main, line 110.
ExecuteFinish ==
    /\ pc = "Executing"
    /\ idx = Len(files_to_process)
    /\ log' = log \o <<<<"INFO", "execute_done">>,
                       <<"INFO", "succeeded", success_count>>,
                       <<"INFO", "failed", error_count>>,
                       <<"INFO", "end_time">>>>
    /\ pc' = "Done"
    /\ UNCHANGED <<args, fs, stack, files_to_process, idx, success_count,
                   error_count, attempts, history>>

Next ==
    \/ RootMissing
    \/ RootNotDir
    \/ StartScan
    \/ WalkStep
    \/ WalkSkip
    \/ WalkRaise
    \/ NoCandidates
    \/ StartPreview
    \/ PreviewStep
    \/ PreviewFinish
    \/ StartExecute
    \/ ExecuteStep
    \/ ExecuteFinish

Spec == Init /\ [][Next]_vars

\* execute_rename (lines 58-76) as a whole: the file system and the
\* counters after the loop has taken every candidate of files, in order.
RECURSIVE ExecuteAll(_, _, _, _)
ExecuteAll(plat, f, c, files) ==
    IF files = <<>> THEN [fs |-> f, counts |-> c]
    ELSE LET r == RenameOne(plat, f, c, Head(files))
         IN  ExecuteAll(plat, r.fs, r.counts, Tail(files))

\* A second invocation of the script, in execute mode on the same
\* directory, after the first has exited.
SecondRun ==
    /\ pc = "Done"
    /\ run = 1
    /\ ~preview
    /\ run' = 2
    /\ first' = [done |-> TRUE,
                 files |-> files_to_process,
                 counts |-> <<success_count, error_count>>,
                 attempts |-> attempts,
                 log |-> log]
    /\ fs0' = fs
    /\ pc' = "Idle"
    /\ stack' = <<>>
    /\ files_to_process' = <<>>
    /\ idx' = 0
    /\ success_count' = 0
    /\ error_count' = 0
    /\ attempts' = <<>>
    /\ log' = <<>>
    /\ UNCHANGED <<args, fs>>

NextTwice == Next \/ SecondRun

SpecTwice == Init /\ [][NextTwice]_vars

\* ------------------------------------------------------------ the claims
\* What the claims speak of, stated over the file system and not over the
\* program's own tests.
RootOf == Resolve(platform, directory)
ValidRoot == Accessible(fs0, RootOf) /\ fs0[RootOf].kind = "dir"
UnderRoot(k) == IsPrefix(RootOf, k) /\ k # RootOf

\* The files under the root named X.adoc.docx.
MatchingFiles(f) ==
    {k \in DOMAIN f :
        UnderRoot(k) /\ f[k].kind = "file" /\ EndsWith(Last(k), OldSuffix)}

\* X.docx for a name X.adoc.docx, and the key of it beside the key k.
TrailingName(name) == SubSeq(name, 1, Len(name) - Len(OldSuffix)) \o NewSuffix
TrailingKey(k) == Append(Front(k), TrailingName(Last(k)))

Logged(l, what) == \E i \in DOMAIN l : l[i][2] = what
TraverseFailed == Logged(log, "traverse")
SummaryEmitted ==
    \/ Logged(log, "preview_done")
    \/ Logged(log, "succeeded") /\ Logged(log, "failed")

\* Every directory the walk comes to can be listed.
AllListable ==
    \A k \in DOMAIN fs0 :
        (fs0[k].kind = "dir" /\ IsPrefix(RootOf, k)) => fs0[k].perm # "---"

ScanDone == pc = "Scanning" /\ stack = <<>>
KeysOf(files) == {Resolve(platform, files[i]) : i \in DOMAIN files}

\* C1: in preview mode every file X.adoc.docx under the root is reported
\* with the new name X.docx, and the file system is as it was before.
C1_PreviewReportsTrailing ==
    (pc = "Done" /\ preview /\ ValidRoot /\ AllListable /\ ~TraverseFailed) =>
        /\ fs = fs0
        /\ \A k \in MatchingFiles(fs0) :
              \E i \in DOMAIN log :
                  /\ log[i][2] = "will_rename"
                  /\ Resolve(platform, log[i][3]) = k
                  /\ Resolve(platform, log[i][4]) = TrailingKey(k)

\* C2: a rename that execute mode performs on X.adoc.docx leaves the file,
\* content unchanged, under X.docx in the same directory, for any X, and
\* the old name is gone: only the trailing .adoc.docx is replaced.
C2_RenameToTrailing ==
    [][(pc = "Executing" /\ idx' = idx + 1 /\ success_count' = success_count + 1) =>
          LET old == Resolve(platform, files_to_process[idx + 1])
          IN  /\ old \notin DOMAIN fs'
              /\ TrailingKey(old) \in DOMAIN fs'
              /\ fs'[TrailingKey(old)] = fs[old]]_vars

\* C3: when X.docx exists as a file at the attempt on X.adoc.docx, both
\* files stay as they are and exactly one failure is counted.
C3_ExistingTargetKept ==
    [][(/\ pc = "Executing"
        /\ idx' = idx + 1
        /\ LET tgt == TrailingKey(Resolve(platform, files_to_process[idx + 1]))
           IN  tgt \in DOMAIN fs /\ fs[tgt].kind = "file") =>
          /\ fs' = fs
          /\ error_count' = error_count + 1
          /\ success_count' = success_count]_vars

\* C4, as stated: after a complete execute-mode run (its scan did not
\* fail), a second execute-mode run finds no candidate and renames nothing.
C4_SecondRunFindsNothing ==
    (run = 2 /\ ~Logged(first.log, "traverse")) =>
        (files_to_process = <<>> /\ attempts = <<>> /\ fs = fs0)

\* The first run's scan did not fail, each of its renames succeeded and
\* none of its new names ends with .adoc.docx again.
FirstRunClean ==
    /\ first.done
    /\ ~Logged(first.log, "traverse")
    /\ first.counts[2] = 0
    /\ \A i \in DOMAIN first.attempts :
          ~EndsWith(BaseName(platform, first.attempts[i].new), OldSuffix)

\* C4, amended: after a first execute-mode run whose scan did not fail,
\* whose renames all succeeded and none of whose new names ends with
\* .adoc.docx, the second run finds no candidate and renames nothing.
C4_SecondRunAfterCleanFirst ==
    (run = 2 /\ FirstRunClean) =>
        (files_to_process = <<>> /\ attempts = <<>> /\ fs = fs0)

C4_Witness ==
    /\ run = 2
    /\ pc = "Done"
    /\ FirstRunClean
    /\ first.counts[1] >= 1
    /\ ~TraverseFailed

\* C5: a walk that met no error returns exactly the files under the root,
\* at any depth, whose name ends with .adoc.docx, each once: no other file,
\* no directory, none left out.
C5_TraverseExact ==
    (ScanDone /\ ValidRoot /\ AllListable /\ ~TraverseFailed) =>
        /\ KeysOf(files_to_process) = MatchingFiles(fs0)
        /\ Len(files_to_process) = Cardinality(MatchingFiles(fs0))

C5_Witness ==
    /\ ScanDone /\ ValidRoot /\ AllListable /\ ~TraverseFailed
    /\ \E k \in MatchingFiles(fs0) : Len(k) = Len(RootOf) + 2
    /\ \E k \in DOMAIN fs0 :
          /\ UnderRoot(k)
          /\ k \notin MatchingFiles(fs0)
          /\ fs0[k].kind = "file"
    /\ \E k \in DOMAIN fs0 :
          /\ UnderRoot(k)
          /\ fs0[k].kind = "dir"
          /\ EndsWith(Last(k), OldSuffix)

\* C6: a root that is missing or no directory ends the run with exactly
\* one error logged, before any scan: no candidate, no rename attempt, in
\* either mode.
C6_InvalidRootStops ==
    ~ValidRoot =>
        /\ pc \in {"Idle", "Done"}
        /\ stack = <<>>
        /\ files_to_process = <<>>
        /\ attempts = <<>>
        /\ idx = 0
        /\ fs = fs0
        /\ pc = "Idle" => log = <<>>
        /\ pc = "Done" => (Len(log) = 1 /\ log[1][1] = "ERROR")

C6_Witness ==
    /\ pc = "Done"
    /\ ~ValidRoot
    /\ RootOf \in DOMAIN fs0
    /\ \E k \in DOMAIN fs0 :
          fs0[k].kind = "file" /\ EndsWith(Last(k), OldSuffix)

\* C7: a walk that cannot list the root or a subdirectory logs the error
\* and returns the empty list, never a part of the candidates.
C7_TraverseAllOrNothing ==
    (ScanDone /\ ValidRoot /\ ~AllListable) =>
        (files_to_process = <<>> /\ TraverseFailed)

\* C8: in execute mode every candidate gets one attempt, in order, failed
\* or not; the two counters add up to the attempts made so far and, at the
\* end, to the candidates; success_count is the renames that took effect.
C8_EveryCandidateCounted ==
    /\ (pc = "Executing" \/ (pc = "Done" /\ attempts # <<>>)) =>
          /\ success_count + error_count = idx
          /\ Len(attempts) = idx
          /\ idx <= Len(files_to_process)
          /\ \A i \in 1..idx : attempts[i].old = files_to_process[i]
          /\ success_count =
                Cardinality({i \in DOMAIN attempts : attempts[i].changed})
    /\ (pc = "Done" /\ ~preview /\ files_to_process # <<>>) =>
          /\ idx = Len(files_to_process)
          /\ success_count + error_count = Len(files_to_process)
          /\ Len(attempts) = Len(files_to_process)

C8_Witness ==
    /\ pc = "Done"
    /\ ~preview
    /\ Len(attempts) >= 2
    /\ ~attempts[1].changed
    /\ attempts[2].changed
    /\ success_count = 1
    /\ error_count = 1

\* C9, as stated: Idle, Scanning, one of Previewing and Executing as the
\* flag says, Done; the flag never changes, nothing follows Done, and Done
\* comes only with the mode's summary logged.
C9_StateSequence ==
    [][/\ preview' = preview
       /\ pc = "Idle" => pc' \in {"Idle", "Scanning"}
       /\ pc = "Scanning" =>
             pc' \in {"Scanning", IF preview THEN "Previewing" ELSE "Executing"}
       /\ pc = "Previewing" => pc' \in {"Previewing", "Done"}
       /\ pc = "Executing" => pc' \in {"Executing", "Done"}
       /\ pc # "Done"
       /\ pc' = "Done" => SummaryEmitted']_vars

\* C9, amended: a run with an invalid root goes from Idle to Done with one
\* error; a scan that ends with no candidate goes from Scanning to Done
\* with the nothing-found line and no summary; every other run goes Idle,
\* Scanning, one of Previewing and Executing as the flag says, and Done
\* with the mode's summary logged.  The flag never changes and nothing
\* follows Done.
C9_StateSequenceAmended ==
    [][/\ preview' = preview
       /\ pc = "Idle" =>
             \/ pc' = "Scanning" /\ ValidRoot
             \/ pc' = "Done" /\ ~ValidRoot /\ Len(log') = 1 /\ log'[1][1] = "ERROR"
       /\ pc = "Scanning" =>
             \/ pc' = "Scanning"
             \/ /\ pc' = (IF preview THEN "Previewing" ELSE "Executing")
                /\ ScanDone
                /\ files_to_process # <<>>
             \/ /\ pc' = "Done"
                /\ ScanDone
                /\ files_to_process = <<>>
                /\ Last(log') = <<"INFO", "nothing_found">>
                /\ ~SummaryEmitted'
       /\ pc = "Previewing" =>
             \/ pc' = "Previewing"
             \/ pc' = "Done" /\ Logged(log', "preview_done")
       /\ pc = "Executing" =>
             \/ pc' = "Executing"
             \/ pc' = "Done" /\ Logged(log', "succeeded") /\ Logged(log', "failed")
       /\ pc # "Done"]_vars

C9_Witness ==
    /\ pc = "Done"
    /\ ValidRoot
    /\ files_to_process = <<>>
    /\ ~SummaryEmitted
    /\ ~TraverseFailed

\* The candidate list in another order.
Permuted(files, p) == [i \in DOMAIN files |-> files[p[i]]]

\* No candidate's new name is another candidate's old or new name.
Independent(files) ==
    \A i, j \in DOMAIN files :
        i # j =>
            LET new_i == Resolve(platform, generate_new_filename(platform, files[i]))
            IN  /\ new_i # Resolve(platform, files[j])
                /\ new_i # Resolve(platform, generate_new_filename(platform, files[j]))

SameOutcomeInAnyOrder ==
    \A p \in Perms(DOMAIN files_to_process) :
        ExecuteAll(platform, fs0, <<0, 0>>, Permuted(files_to_process, p))
            = [fs |-> fs, counts |-> <<success_count, error_count>>]

\* C10, as stated: execute mode ends with the same files, contents and
\* counters whatever the order of the candidates.
C10_OrderIndependent ==
    (pc = "Done" /\ ~preview /\ files_to_process # <<>>) => SameOutcomeInAnyOrder

\* C10, amended: execute mode ends with the same files, contents and
\* counters whatever the order of the candidates, when no candidate's new
\* name is another candidate's old or new name.
C10_OrderIndependentWhenDisjoint ==
    (pc = "Done" /\ ~preview /\ files_to_process # <<>>
        /\ Independent(files_to_process)) => SameOutcomeInAnyOrder

C10_Witness ==
    /\ pc = "Done"
    /\ ~preview
    /\ Len(files_to_process) >= 2
    /\ Independent(files_to_process)
    /\ success_count >= 1
    /\ error_count >= 1

====
